---- MODULE Spec2Model ----
(***************************************************************************)
(* PatentWatch: the pgvector document store and its match_documents        *)
(* search (backend/scripts/setup_supabase.sql), and the frontend's SSE     *)
(* client (streamAnalysis) with the per-company run state of App           *)
(* (runCompany, handleIngestOne).                                          *)
(***************************************************************************)
EXTENDS Integers, Sequences, FiniteSets, TLC

VARIABLES
    documents,   \* the documents table, in insertion order
    lastCall,    \* the store call whose outcome the caller holds: arguments and outcome
    response,    \* streamAnalysis: the HTTP response the server gives to the fetch
    pc,          \* streamAnalysis: where the generator is
    pos,         \* streamAnalysis: how many characters of the body the reader has handed over
    buffer,      \* streamAnalysis: `buffer`
    yielded,     \* streamAnalysis: the events yielded so far, in order
    data,        \* App: the CompanyMap state, company -> CompanyData
    globalBusy,  \* App: `globalBusy`
    runs,        \* App: the runCompany calls that have not returned, in the order they started
    ingests,     \* App: the companies of the handleIngestOne calls that have not returned
    started,     \* App: how many runCompany and handleIngestOne calls have been made
    rendered     \* ComparisonTable: what it has rendered last

storeVars == <<documents, lastCall>>

streamVars == <<response, pc, pos, buffer, yielded>>

appVars == <<data, globalBusy, runs, ingests, started>>

viewVars == <<rendered>>

vars == <<documents, lastCall, response, pc, pos, buffer, yielded,
          data, globalBusy, runs, ingests, started, rendered>>

-----------------------------------------------------------------------------
(* Bounds of the model.                                                    *)

MaxDocs == 3

MaxFrames == 2

MaxCalls == 2

MaxDrivers == 4

-----------------------------------------------------------------------------
(* Value domains.                                                          *)

NULL == "NULL"

Companies == {"c1", "c2"}

SourceTypes == {"patent", "news", "product_image"}

ImageUrls == {NULL, "u1"}

\* Embeddings are vector(768) in the schema; the model keeps two components
\* and picks vectors whose Euclidean norm is an integer, so that every
\* cosine is an exact multiple of 1/One.
Embeddings == {<<1, 0>>, <<3, 4>>}

\* A vector whose dimension differs from the store's.
BadEmbeddings == {<<1>>}

QueryEmbeddings == {<<1, 0>>, <<0, 1>>}

\* The fixed-point unit: the real number 1 is One units.
One == 5 * 5

\* filter_types text[]: SQL NULL, the empty array, or a non-empty array.
TypesNull == [isNull |-> TRUE, elems |-> {}]

FilterTypes ==
    {TypesNull} \cup
    {[isNull |-> FALSE, elems |-> T] :
        T \in {{}, {"patent"}, {"news", "product_image"}}}

-----------------------------------------------------------------------------
(* Cosine distance, the <=> operator of vector_cosine_ops.                 *)

Dot(a, b) == a[1] * b[1] + a[2] * b[2]

Norm(a) == CHOOSE n \in 0..5 : n * n = Dot(a, a)

\* cosine similarity in units of 1/One
Cosine(a, b) == (Dot(a, b) * One) \div (Norm(a) * Norm(b))

CosineDistance(a, b) == One - Cosine(a, b)

\* 1 - (d.embedding <=> query_embedding) AS similarity
Similarity(e, q) == One - CosineDistance(e, q)

-----------------------------------------------------------------------------
(* match_documents                                                         *)

WhereIgnoresCompany(d, filter_company, filter_types) ==
    filter_types.isNull \/ d.source_type \in filter_types.elems

WhereIgnoresTypes(d, filter_company, filter_types) ==
    d.company = filter_company

\* WHERE d.company = filter_company
\*   AND (filter_types IS NULL OR d.source_type = ANY(filter_types))
Where(d, filter_company, filter_types) ==
    /\ d.company = filter_company
    /\ (filter_types.isNull \/ d.source_type \in filter_types.elems)

Selected(filter_company, filter_types) ==
    {i \in 1..Len(documents) : Where(documents[i], filter_company, filter_types)}

OrderedFarthestFirst(s, q) ==
    \A i, j \in 1..Len(s) :
        i < j => CosineDistance(documents[s[i]].embedding, q)
                    >= CosineDistance(documents[s[j]].embedding, q)

\* ORDER BY d.embedding <=> query_embedding  (ascending; rows at the same
\* distance come in whatever order the executor produces them)
Ordered(s, q) ==
    \A i, j \in 1..Len(s) :
        i < j => CosineDistance(documents[s[i]].embedding, q)
                    <= CosineDistance(documents[s[j]].embedding, q)

Arrangements(S) ==
    {s \in [1..Cardinality(S) -> S] : \A i, j \in 1..Cardinality(S) : i # j => s[i] # s[j]}

LimitOffByOne(s, match_count) ==
    SubSeq(s, 1, IF match_count + 1 < Len(s) THEN match_count + 1 ELSE Len(s))

\* LIMIT match_count (match_count >= 0)
Limit(s, match_count) ==
    SubSeq(s, 1, IF match_count < Len(s) THEN match_count ELSE Len(s))

\* one RETURNS TABLE row
Row(i, q) ==
    [id          |-> documents[i].id,
     company     |-> documents[i].company,
     source_type |-> documents[i].source_type,
     image_url   |-> documents[i].image_url,
     similarity  |-> Similarity(documents[i].embedding, q)]

\* the set of row sequences the query may return
match_documents(query_embedding, filter_company, filter_types, match_count) ==
    {[n \in 1..Len(Limit(s, match_count)) |-> Row(Limit(s, match_count)[n], query_embedding)] :
        s \in {a \in Arrangements(Selected(filter_company, filter_types)) :
                  Ordered(a, query_embedding)}}

NoCall == [op |-> "none"]

\* A call of match_documents, with match_count from -1 to the size the table
\* can reach. A negative LIMIT is an error in PostgreSQL.
\* The store's client awaits each call before it makes the next.
Search ==
    /\ lastCall = NoCall
    /\ \E q \in QueryEmbeddings, c \in Companies, t \in FilterTypes, k \in -1..MaxDocs :
          IF k < 0
             THEN lastCall' = [op |-> "search", query |-> q, company |-> c, types |-> t,
                               k |-> k, error |-> TRUE, rows |-> <<>>]
             ELSE \E rows \in match_documents(q, c, t, k) :
                     lastCall' = [op |-> "search", query |-> q, company |-> c, types |-> t,
                                  k |-> k, error |-> FALSE, rows |-> rows]
    /\ UNCHANGED <<documents, streamVars, appVars, viewVars>>

-----------------------------------------------------------------------------
(* upsert: the store's insertion of one Document                           *)

ValidatesNothing(source_type, image_url, embedding) == TRUE

\* ValidationError unless the embedding has the store's dimension (768 in
\* the schema, 2 in the model) and a product_image carries an image_url
Valid(source_type, image_url, embedding) ==
    /\ Len(embedding) = 2
    /\ source_type = "product_image" => image_url # NULL

\* the row as the documents table stores it
NewDocument(company, source_type, image_url, embedding) ==
    [id          |-> Len(documents) + 1,
     company     |-> company,
     source_type |-> source_type,
     image_url   |-> image_url,
     embedding   |-> embedding,
     created_at  |-> Len(documents) + 1]

\* One upsert. Ingestion gives an image_url to product images only, so the
\* inputs leave it NULL for the other source types.
Upsert ==
    /\ lastCall = NoCall
    /\ Len(documents) < MaxDocs
    /\ \E c \in Companies, st \in SourceTypes, u \in ImageUrls,
          e \in Embeddings \cup BadEmbeddings :
        /\ (st # "product_image" => u = NULL)
        /\ IF Valid(st, u, e)
              THEN /\ documents' = Append(documents, NewDocument(c, st, u, e))
                   /\ lastCall' = [op |-> "upsert", source_type |-> st, image_url |-> u,
                                    error |-> "none"]
              ELSE /\ documents' = documents
                   /\ lastCall' = [op |-> "upsert", source_type |-> st, image_url |-> u,
                                    error |-> "ValidationError"]
    /\ UNCHANGED <<streamVars, appVars, viewVars>>

\* the caller takes the outcome of its call
Return ==
    /\ lastCall # NoCall
    /\ lastCall' = NoCall
    /\ UNCHANGED <<documents, streamVars, appVars, viewVars>>

-----------------------------------------------------------------------------
(* streamAnalysis: the SSE client. Text is a sequence of characters.        *)

LF == "\n"

Whitespace == {" ", LF}

DataPrefix == <<"d", "a", "t", "a", ":">>

\* The JSON texts of AgentStreamEvents, one character each: the events of
\* the nodes investigator, forensic, synthesizer, complete and error; a
\* lower-case letter is the event without its optional data or message, and
\* a longer name is the synthesizer or complete event with other data.
EventTexts ==
    {"I", "F", "S", "s", "C", "c", "E", "e"} \cup
    {"S100", "C100", "S140", "C140", "Su", "Cu", "S0", "C0"}

\* Payloads a frame of the stream model may carry: an event's JSON, text
\* that is no JSON, or nothing.
Payloads == {<<t>> : t \in {"I", "F", "C", "E"}} \cup {<<"x">>, <<>>}

\* one frame as the server writes it: data: <payload> and a blank line
FrameText(payload) == DataPrefix \o <<" ">> \o payload \o <<LF, LF>>

RECURSIVE BodyText(_)
BodyText(frames) ==
    IF frames = <<>> THEN <<>> ELSE FrameText(Head(frames)) \o BodyText(Tail(frames))

\* the whole body: the terminated frames, then what the server wrote last
\* without a blank line after it
Wire(r) == BodyText(r.frames) \o r.tail

FrameSeqs == UNION {[1..n -> Payloads] : n \in 0..MaxFrames}

Tails == {<<>>, DataPrefix \o <<" ", "C">>, DataPrefix \o <<" ", "C", LF>>}

Responses == [ok : BOOLEAN, frames : FrameSeqs, tail : Tails]

\* the index of the first "\n\n" in s, or 0
FirstBlank(s) ==
    IF \E i \in 1..(Len(s) - 1) : s[i] = LF /\ s[i + 1] = LF
       THEN CHOOSE i \in 1..(Len(s) - 1) :
               /\ s[i] = LF /\ s[i + 1] = LF
               /\ \A j \in 1..(i - 1) : ~(s[j] = LF /\ s[j + 1] = LF)
       ELSE 0

\* buffer.split("\n\n")
RECURSIVE Split(_)
Split(s) ==
    IF FirstBlank(s) = 0
       THEN <<s>>
       ELSE <<SubSeq(s, 1, FirstBlank(s) - 1)>> \o Split(SubSeq(s, FirstBlank(s) + 2, Len(s)))

PopDropsRemainder(parts) == <<>>

\* lines.pop() ?? "": the text after the last separator stays in the buffer
Pop(parts) == parts[Len(parts)]

LinesWithRemainder(parts) == parts

\* lines after the pop
Lines(parts) == SubSeq(parts, 1, Len(parts) - 1)

RECURSIVE TrimStart(_)
TrimStart(s) ==
    IF s # <<>> /\ Head(s) \in Whitespace THEN TrimStart(Tail(s)) ELSE s

RECURSIVE TrimEnd(_)
TrimEnd(s) ==
    IF s # <<>> /\ s[Len(s)] \in Whitespace THEN TrimEnd(SubSeq(s, 1, Len(s) - 1)) ELSE s

\* String.prototype.trim
Trim(s) == TrimEnd(TrimStart(s))

\* line.replace(/^data:\s*/, "")
StripData(line) ==
    IF Len(line) >= Len(DataPrefix) /\ SubSeq(line, 1, Len(DataPrefix)) = DataPrefix
       THEN TrimStart(SubSeq(line, Len(DataPrefix) + 1, Len(line)))
       ELSE line

DataLine(line) == Trim(StripData(line))

\* JSON.parse: the event of a JSON text, or a SyntaxError
JSONParse(text) ==
    IF Len(text) = 1 /\ text[1] \in EventTexts
       THEN [ok |-> TRUE, event |-> text[1]]
       ELSE [ok |-> FALSE]

\* the for loop over lines if a line that does not parse ended it
RECURSIVE YieldsStopAtMalformed(_)
YieldsStopAtMalformed(lines) ==
    IF lines = <<>> THEN <<>>
    ELSE IF DataLine(Head(lines)) = <<>> THEN YieldsStopAtMalformed(Tail(lines))
    ELSE IF JSONParse(DataLine(Head(lines))).ok
            THEN <<JSONParse(DataLine(Head(lines))).event>> \o YieldsStopAtMalformed(Tail(lines))
            ELSE <<>>

\* the for loop over lines: the events it yields, in order
RECURSIVE YieldsOf(_)
YieldsOf(lines) ==
    IF lines = <<>> THEN <<>>
    ELSE IF DataLine(Head(lines)) = <<>> THEN YieldsOf(Tail(lines))
    ELSE IF JSONParse(DataLine(Head(lines))).ok
            THEN <<JSONParse(DataLine(Head(lines))).event>> \o YieldsOf(Tail(lines))
            ELSE YieldsOf(Tail(lines))

\* await fetch(...); if (!res.ok || !res.body) throw new Error("Stream failed")
Fetch ==
    /\ pc = "fetch"
    /\ pc' = IF response.ok THEN "reading" ELSE "threw"
    /\ UNCHANGED <<response, pos, buffer, yielded, storeVars, appVars, viewVars>>

\* one turn of the while loop on a chunk of n characters: decode, split,
\* keep the remainder, yield the events of the complete lines
ReadChunk ==
    /\ pc = "reading"
    /\ \E n \in 1..(Len(Wire(response)) - pos) :
          LET parts == Split(buffer \o SubSeq(Wire(response), pos + 1, pos + n))
          IN  /\ pos' = pos + n
              /\ buffer' = Pop(parts)
              /\ yielded' = yielded \o YieldsOf(Lines(parts))
    /\ UNCHANGED <<response, pc, storeVars, appVars, viewVars>>

\* reader.read() resolves with done: break, and the generator returns
ReadDone ==
    /\ pc = "reading"
    /\ pos = Len(Wire(response))
    /\ pc' = "done"
    /\ UNCHANGED <<response, pos, buffer, yielded, storeVars, appVars, viewVars>>

\* reader.read() rejects (the connection broke): the generator throws
ReadFails ==
    /\ pc = "reading"
    /\ pc' = "threw"
    /\ UNCHANGED <<response, pos, buffer, yielded, storeVars, appVars, viewVars>>

-----------------------------------------------------------------------------
(* App: the per-company state and runCompany / handleIngestOne.            *)

\* COMPANIES (five names in the source; the model keeps two)
AppCompanies == {"Thales", "Rheinmetall"}

IdleAgents == [investigator |-> "idle", forensic |-> "idle", synthesizer |-> "idle"]

\* emptyCompanyData(); a null result is <<>>, a result r is <<r>>
emptyCompanyData ==
    [status |-> "idle", agentStatus |-> IdleAgents, result |-> <<>>, error |-> NULL]

\* Partial<AnalysisResult> as the synthesizer and complete events carry it
SynthData ==
    [risk_score |-> 82, score_drivers |-> <<"driver">>,
     contradictions |-> <<[claim |-> "claim", sources |-> <<"EP1">>]>>]

CompleteData ==
    [risk_score |-> 82, score_drivers |-> <<"driver">>,
     contradictions |-> <<[claim |-> "claim", sources |-> <<"EP1">>]>>,
     products |-> <<"p1">>, stats |-> [patent |-> 1, news |-> 1, product_image |-> 0]]

\* a synthesizer result with the given score and one contradiction that
\* cites the given sources
SynthResult(risk_score, sources) ==
    [risk_score |-> risk_score, score_drivers |-> <<"driver">>,
     contradictions |-> <<[claim |-> "claim", sources |-> sources]>>]

\* the synthesizer result that cites nothing and has nothing to explain
EmptyResult == [risk_score |-> 0, score_drivers |-> <<>>, contradictions |-> <<>>]

\* the full result: the synthesizer's fields, the products and the stats
Full(d) ==
    [risk_score |-> d.risk_score, score_drivers |-> d.score_drivers,
     contradictions |-> d.contradictions,
     products |-> <<"p1">>, stats |-> [patent |-> 1, news |-> 1, product_image |-> 0]]

\* the AgentStreamEvent a JSON text parses to; absent data or message is <<>>
EventOf(text) ==
    CASE text = "I" -> [node |-> "investigator", data |-> <<>>, message |-> <<>>]
      [] text = "F" -> [node |-> "forensic", data |-> <<>>, message |-> <<>>]
      [] text = "S" -> [node |-> "synthesizer", data |-> <<SynthData>>, message |-> <<>>]
      [] text = "s" -> [node |-> "synthesizer", data |-> <<>>, message |-> <<>>]
      [] text = "C" -> [node |-> "complete", data |-> <<CompleteData>>, message |-> <<>>]
      [] text = "c" -> [node |-> "complete", data |-> <<>>, message |-> <<>>]
      [] text = "E" -> [node |-> "error", data |-> <<>>, message |-> <<"stage failed">>]
      [] text = "e" -> [node |-> "error", data |-> <<>>, message |-> <<>>]
      [] text = "S100" -> [node |-> "synthesizer",
                           data |-> <<SynthResult(100, <<"EP1">>)>>, message |-> <<>>]
      [] text = "C100" -> [node |-> "complete",
                           data |-> <<Full(SynthResult(100, <<"EP1">>))>>, message |-> <<>>]
      [] text = "S140" -> [node |-> "synthesizer",
                           data |-> <<SynthResult(140, <<"EP1">>)>>, message |-> <<>>]
      [] text = "C140" -> [node |-> "complete",
                           data |-> <<Full(SynthResult(140, <<"EP1">>))>>, message |-> <<>>]
      [] text = "S0" -> [node |-> "synthesizer", data |-> <<EmptyResult>>, message |-> <<>>]
      [] text = "C0" -> [node |-> "complete",
                         data |-> <<[risk_score |-> 0, score_drivers |-> <<>>,
                                     contradictions |-> <<>>, products |-> <<>>,
                                     stats |-> [patent |-> 0, news |-> 0,
                                                product_image |-> 0]]>>,
                         message |-> <<>>]
      [] text = "Su" -> [node |-> "synthesizer",
                         data |-> <<SynthResult(82, <<>>)>>, message |-> <<>>]
      [] text = "Cu" -> [node |-> "complete",
                         data |-> <<Full(SynthResult(82, <<>>))>>, message |-> <<>>]

\* { ...a, ...b }
Spread(a, b) ==
    [f \in DOMAIN a \cup DOMAIN b |-> IF f \in DOMAIN b THEN b[f] ELSE a[f]]

PatchEveryCompany(d, company, update) ==
    [c \in DOMAIN d |-> Spread(d[c], update)]

\* patch(company, update)
patch(d, company, update) ==
    [d EXCEPT ![company] = Spread(d[company], update)]

\* the first patch of runCompany
RunningPatch ==
    [status |-> "running", error |-> NULL, result |-> <<>>,
     agentStatus |-> [investigator |-> "running", forensic |-> "idle", synthesizer |-> "idle"]]

\* the patch of the catch block, and of an error event, with message m
ErrorPatch(m) ==
    [status |-> "error", error |-> m, agentStatus |-> IdleAgents]

ErrorEventKeepsStatus(cd, event) ==
    Spread(cd, [error |-> IF event.message # <<>> THEN event.message[1] ELSE "Unknown error",
                agentStatus |-> IdleAgents])

\* the branch for event.node === "error"
OnErrorEvent(cd, event) ==
    Spread(cd, ErrorPatch(IF event.message # <<>> THEN event.message[1] ELSE "Unknown error"))

DoneKeepsStatus(cd, event) ==
    [cd EXCEPT !.agentStatus =
        [investigator |-> "done", forensic |-> "done", synthesizer |-> "done"]]

\* the branch for event.node === "synthesizer" || event.node === "complete"
OnDoneEvent(cd, event) ==
    Spread(cd,
        [agentStatus |-> [investigator |-> "done", forensic |-> "done", synthesizer |-> "done"],
         status |-> "done",
         result |-> IF event.data # <<>>
                      THEN <<Spread(IF cd.result # <<>> THEN cd.result[1] ELSE <<>>,
                                    event.data[1])>>
                      ELSE cd.result])

OnEventKeepsOtherStages(cd, event) ==
    IF event.node = "investigator"
       THEN Spread(cd, [agentStatus |-> [cd.agentStatus EXCEPT !.investigator = "done",
                                                               !.forensic = "running"]])
    ELSE IF event.node = "forensic"
       THEN Spread(cd, [agentStatus |-> [cd.agentStatus EXCEPT !.forensic = "done",
                                                               !.synthesizer = "running"]])
    ELSE IF event.node \in {"synthesizer", "complete"}
       THEN OnDoneEvent(cd, event)
    ELSE IF event.node = "error"
       THEN OnErrorEvent(cd, event)
    ELSE cd

\* the body of the for await loop: the CompanyData after one event
OnEvent(cd, event) ==
    IF event.node = "investigator"
       THEN Spread(cd, [agentStatus |->
                [investigator |-> "done", forensic |-> "running", synthesizer |-> "idle"]])
    ELSE IF event.node = "forensic"
       THEN Spread(cd, [agentStatus |->
                [investigator |-> "done", forensic |-> "done", synthesizer |-> "running"]])
    ELSE IF event.node \in {"synthesizer", "complete"}
       THEN OnDoneEvent(cd, event)
    ELSE IF event.node = "error"
       THEN OnErrorEvent(cd, event)
    ELSE cd

\* what streamAnalysis yields for a body that is the one frame of `payload`
FrameEvents(payload) == YieldsOf(Lines(Split(FrameText(payload))))

\* the per-company buttons: disabled={busy}
busy(cd) == cd.status = "running" \/ cd.status = "ingesting"

anyRunning == \E c \in AppCompanies : busy(data[c])

ServerGoesOnAfterFailure(stage) ==
    CASE stage = "investigator" -> {<<"I", "forensic">>, <<"E", "forensic">>}
      [] stage = "forensic"     -> {<<"F", "synthesizer">>, <<"E", "ended">>}
      [] stage = "synthesizer"  -> {<<"S", "complete">>, <<"E", "ended">>}
      [] stage = "complete"     -> {<<"C", "ended">>}
      [] stage = "ended"        -> {}

\* The orchestrator behind POST /api/analyze/stream: one event per finished
\* stage, then `complete`; a failing stage ends the run with `error`.
\* From a stage, the frames the server may write next and the stage after.
ServerSteps(stage) ==
    CASE stage = "investigator" -> {<<"I", "forensic">>, <<"E", "ended">>}
      [] stage = "forensic"     -> {<<"F", "synthesizer">>, <<"E", "ended">>}
      [] stage = "synthesizer"  -> {<<"S", "complete">>, <<"E", "ended">>}
      [] stage = "complete"     -> {<<"C", "ended">>}
      [] stage = "ended"        -> {}

\* what the generative step of the Synthesizer may return: a result in
\* range with a cited contradiction, a score out of range, a contradiction
\* that cites nothing
SynthOutputs ==
    {SynthResult(82, <<"EP1">>), SynthResult(140, <<"EP1">>), SynthResult(82, <<>>)}

AcceptsAnything(out) == TRUE

\* the schema check of the Synthesizer's output: every contradiction cites
\* at least one source
SchemaValid(out) ==
    \A i \in 1..Len(out.contradictions) : out.contradictions[i].sources # <<>>

NoClamp(x) == x

\* the Scoring Engine brings a score into [0, 100]
Clamp(x) == IF x < 0 THEN 0 ELSE IF x > 100 THEN 100 ELSE x

Scored(out) == [out EXCEPT !.risk_score = Clamp(@)]

\* the JSON text of the event of `node` that carries `d`
TextOf(node, d) ==
    CHOOSE t \in EventTexts :
        EventOf(t) = [node |-> node, data |-> <<d>>, message |-> <<>>]

\* the store as the server of the model finds it: one patent and one news
\* chunk of the first company, nothing of the second
Corpus ==
    <<[id |-> 1, company |-> "Thales", source_type |-> "patent", image_url |-> NULL,
       embedding |-> <<1, 0>>, created_at |-> 1],
      [id |-> 2, company |-> "Thales", source_type |-> "news", image_url |-> NULL,
       embedding |-> <<3, 4>>, created_at |-> 2]>>

\* the types of one source type, as filter_types
OnlyTypes(T) == [isNull |-> FALSE, elems |-> T]

\* the stats query: the number of the company's documents by source type
StatsOf(company) ==
    [t \in SourceTypes |-> Cardinality(Selected(company, OnlyTypes({t})))]

\* the rows the Investigator and the Forensic stage retrieve for a company:
\* no row at all when every search of theirs returns none
NoEvidence(company) ==
    \A q \in QueryEmbeddings, T \in {{"news", "product_image"}, {"patent"}} :
        match_documents(q, company, OnlyTypes(T), MaxDocs) = {<<>>}

\* what the Synthesizer may return for a company: with no evidence there is
\* nothing to cite and nothing to explain
SynthOutputsFor(company) ==
    IF NoEvidence(company) THEN {EmptyResult} ELSE SynthOutputs

\* the full result of a run: the synthesizer's fields, the products the
\* Investigator found, the stats of the company's corpus
CompleteResult(d, company) ==
    [risk_score |-> d.risk_score, score_drivers |-> d.score_drivers,
     contradictions |-> d.contradictions,
     products |-> IF NoEvidence(company) THEN <<>> ELSE <<"p1">>,
     stats |-> StatsOf(company)]

\* The frames the server may write for a run at a step of ServerSteps, each
\* with the stage after it and the result the run has produced by then: the
\* synthesizer event carries the checked and scored output of the
\* generative step, or the stage fails on an output the check rejects; the
\* complete event carries the full result.
ServerFrames(run, step) ==
    IF step[1] = "S"
       THEN {IF SchemaValid(out)
                THEN <<TextOf("synthesizer", Scored(out)), step[2], <<Scored(out)>>>>
                ELSE <<"E", "ended", run.produced>> : out \in SynthOutputsFor(run.company)}
    ELSE IF step[1] = "C"
       THEN {<<TextOf("complete", CompleteResult(run.produced[1], run.company)),
               step[2], run.produced>>}
    ELSE {<<step[1], step[2], run.produced>>}

\* the CompanyData after the events of `events`, handled in order
RECURSIVE OnEvents(_, _)
OnEvents(cd, events) ==
    IF events = <<>> THEN cd
    ELSE OnEvents(OnEvent(cd, EventOf(Head(events))), Tail(events))

\* a runCompany call as it starts: the fetch is in flight. `outcome` is the
\* status as this call's own patches leave it, `received` the events its
\* loop has taken so far; `stage` and `produced` are the server's: the stage
\* its pipeline is at and the result its Synthesizer has produced.
NewRun(company, batch) ==
    [company |-> company, phase |-> "fetch", stage |-> "investigator",
     outcome |-> RunningPatch.status, batch |-> batch, received |-> <<>>,
     produced |-> <<>>]

\* s without its element at index i
Remove(s, i) == SubSeq(s, 1, i - 1) \o SubSeq(s, i + 1, Len(s))

\* handleAnalyzeOne: runCompany(company), up to its first await
StartRun ==
    /\ started < MaxCalls
    /\ started' = started + 1
    /\ \E c \in AppCompanies :
          /\ ~busy(data[c])
          /\ data' = patch(data, c, RunningPatch)
          /\ runs' = Append(runs, NewRun(c, FALSE))
    /\ UNCHANGED <<globalBusy, ingests, storeVars, viewVars, streamVars>>

RECURSIVE StartAll(_, _)
StartAll(rs, cs) ==
    IF cs = {} THEN rs
    ELSE LET c == CHOOSE x \in cs : TRUE
         IN  StartAll(Append(rs, NewRun(c, TRUE)), cs \ {c})

\* handleAnalyzeAll, up to the await: every runCompany call has made its
\* first patch
AnalyzeAll ==
    /\ ~(anyRunning \/ globalBusy)
    /\ started + Cardinality(AppCompanies) <= MaxCalls
    /\ started' = started + Cardinality(AppCompanies)
    /\ globalBusy' = TRUE
    /\ data' = [c \in AppCompanies |-> Spread(data[c], RunningPatch)]
    /\ runs' = StartAll(runs, AppCompanies)
    /\ UNCHANGED <<ingests, storeVars, viewVars, streamVars>>

\* Promise.allSettled resolves: setGlobalBusy(false)
AllSettled ==
    /\ globalBusy
    /\ \A r \in 1..Len(runs) : ~runs[r].batch
    /\ globalBusy' = FALSE
    /\ UNCHANGED <<data, runs, ingests, started, storeVars, viewVars, streamVars>>

\* the fetch of streamAnalysis settles: the stream opens, or the generator
\* throws "Stream failed" and the catch block of runCompany patches
RunFetch ==
    \E r \in 1..Len(runs) :
        /\ runs[r].phase = "fetch"
        /\ \E ok \in BOOLEAN :
              IF ok
                 THEN /\ runs' = [runs EXCEPT ![r].phase = "streaming"]
                      /\ data' = data
                 ELSE /\ runs' = Remove(runs, r)
                      /\ data' = patch(data, runs[r].company, ErrorPatch("Stream failed"))
        /\ UNCHANGED <<globalBusy, ingests, started, storeVars, viewVars, streamVars>>

\* the status as the run's own patches leave it after `event`
OutcomeAfter(outcome, event) ==
    OnEvent([emptyCompanyData EXCEPT !.status = outcome], event).status

\* the server writes its next frame and the loop of runCompany takes the
\* events streamAnalysis yields for it
RunEvent ==
    \E r \in 1..Len(runs) :
        /\ runs[r].phase = "streaming"
        /\ \E step \in ServerSteps(runs[r].stage) :
           \E frame \in ServerFrames(runs[r], step) :
              LET evs == FrameEvents(<<frame[1]>>)
              IN  /\ data' = IF evs = <<>> THEN data
                             ELSE [data EXCEPT ![runs[r].company] = OnEvent(@, EventOf(evs[1]))]
                  /\ runs' = [runs EXCEPT
                                ![r].stage = frame[2],
                                ![r].produced = frame[3],
                                ![r].outcome = IF evs = <<>> THEN @
                                               ELSE OutcomeAfter(@, EventOf(evs[1])),
                                ![r].received = @ \o evs]
        /\ UNCHANGED <<globalBusy, ingests, started, storeVars, viewVars, streamVars>>

\* the server has ended the response: read() gives done, the generator and
\* runCompany return
RunClose ==
    \E r \in 1..Len(runs) :
        /\ runs[r].phase = "streaming"
        /\ runs[r].stage = "ended"
        /\ runs' = Remove(runs, r)
        /\ UNCHANGED <<data, globalBusy, ingests, started, storeVars, viewVars, streamVars>>

\* read() rejects (the connection broke): the catch block patches
RunThrow ==
    \E r \in 1..Len(runs) :
        /\ runs[r].phase = "streaming"
        /\ runs' = Remove(runs, r)
        /\ data' = patch(data, runs[r].company, ErrorPatch("network error"))
        /\ UNCHANGED <<globalBusy, ingests, started, storeVars, viewVars, streamVars>>

\* Record<string, number> of GET /api/stats: the counts, or {} when !res.ok
StatsReplies == {[patent |-> 3, news |-> 2, product_image |-> 0], <<>>}

\* handleIngestOne up to its first await
IngestStart ==
    /\ started < MaxCalls
    /\ started' = started + 1
    /\ \E c \in AppCompanies :
          /\ ~busy(data[c])
          /\ data' = patch(data, c, [status |-> "ingesting", error |-> NULL])
          /\ ingests' = Append(ingests, c)
    /\ UNCHANGED <<globalBusy, runs, storeVars, viewVars, streamVars>>

IngestedResultStatsOnly(result, stats) == <<[stats |-> stats]>>

\* prev[company].result ? { ...prev[company].result, stats } : null
IngestedResult(result, stats) ==
    IF result # <<>> THEN <<Spread(result[1], [stats |-> stats])>> ELSE <<>>

\* triggerIngest and fetchStats resolve: the setData of the try block
IngestDone ==
    \E i \in 1..Len(ingests) :
        /\ ingests' = Remove(ingests, i)
        /\ \E stats \in StatsReplies :
              data' = [data EXCEPT ![ingests[i]] =
                          [@ EXCEPT !.status = "idle",
                                    !.result = IngestedResult(@, stats)]]
        /\ UNCHANGED <<globalBusy, runs, started, storeVars, viewVars, streamVars>>

\* triggerIngest or fetchStats throws: the catch block
IngestFail ==
    \E i \in 1..Len(ingests) :
        /\ ingests' = Remove(ingests, i)
        /\ data' = patch(data, ingests[i],
                         [status |-> "error", error |-> "Ingestion failed"])
        /\ UNCHANGED <<globalBusy, runs, started, storeVars, viewVars, streamVars>>

NotRendered == [kind |-> "none"]

\* initState()
InitApp ==
    /\ data = [c \in AppCompanies |-> emptyCompanyData]
    /\ globalBusy = FALSE
    /\ runs = <<>>
    /\ ingests = <<>>
    /\ started = 0

InitServer ==
    /\ InitApp
    /\ rendered = NotRendered
    /\ documents = Corpus
    /\ lastCall = NoCall
    /\ response = [ok |-> FALSE, frames |-> <<>>, tail |-> <<>>]
    /\ pc = "idle"
    /\ pos = 0
    /\ buffer = <<>>
    /\ yielded = <<>>

NextServer ==
    \/ StartRun \/ AnalyzeAll \/ AllSettled
    \/ RunFetch \/ RunEvent \/ RunClose \/ RunThrow
    \/ IngestStart \/ IngestDone \/ IngestFail

\* the App against a server that follows the orchestrator's protocol
SpecServer == InitServer /\ [][NextServer]_vars

InitStream ==
    /\ InitApp
    /\ rendered = NotRendered
    /\ documents = <<>>
    /\ lastCall = NoCall
    /\ response \in Responses
    /\ pc = "fetch"
    /\ pos = 0
    /\ buffer = <<>>
    /\ yielded = <<>>

NextStream == Fetch \/ ReadChunk \/ ReadDone \/ ReadFails

SpecStream == InitStream /\ [][NextStream]_vars

-----------------------------------------------------------------------------
(* One runCompany call reading its events through streamAnalysis, for any  *)
(* body the server may write.                                              *)

AppPayloads == {<<t>> : t \in {"I", "F", "S", "s", "C", "E", "e"}} \cup {<<"x">>}

AppFrameSeqs == UNION {[1..n -> AppPayloads] : n \in 0..MaxFrames}

AppTails == {<<>>, DataPrefix \o <<" ", "C">>}

\* a response that is not ok has no body to read
AppResponses ==
    {[ok |-> FALSE, frames |-> <<>>, tail |-> <<>>]} \cup
    [ok : {TRUE}, frames : AppFrameSeqs, tail : AppTails]

\* runCompany(company) up to the fetch of streamAnalysis
AppRun ==
    /\ pc = "idle"
    /\ pc' = "fetch"
    /\ started' = started + 1
    /\ \E c \in AppCompanies :
          /\ ~busy(data[c])
          /\ data' = patch(data, c, RunningPatch)
          /\ runs' = Append(runs, NewRun(c, FALSE))
    /\ UNCHANGED <<response, pos, buffer, yielded, globalBusy, ingests, storeVars, viewVars>>

\* the fetch settles: the reader is taken, or streamAnalysis throws
\* "Stream failed" and the catch block of runCompany patches
AppFetch ==
    /\ pc = "fetch"
    /\ IF response.ok
          THEN /\ pc' = "reading"
               /\ runs' = [runs EXCEPT ![1].phase = "streaming"]
               /\ data' = data
          ELSE /\ pc' = "threw"
               /\ runs' = <<>>
               /\ data' = patch(data, runs[1].company, ErrorPatch("Stream failed"))
    /\ UNCHANGED <<response, pos, buffer, yielded, globalBusy, ingests, started, storeVars, viewVars>>

\* one turn of the while loop of streamAnalysis on a chunk of n characters,
\* and the turns of the for await loop of runCompany on the events it yields
AppReadChunk ==
    /\ pc = "reading"
    /\ \E n \in 1..(Len(Wire(response)) - pos) :
          LET parts == Split(buffer \o SubSeq(Wire(response), pos + 1, pos + n))
              evs   == YieldsOf(Lines(parts))
          IN  /\ pos' = pos + n
              /\ buffer' = Pop(parts)
              /\ yielded' = yielded \o evs
              /\ data' = [data EXCEPT ![runs[1].company] = OnEvents(@, evs)]
              /\ runs' = [runs EXCEPT
                            ![1].outcome =
                                OnEvents([emptyCompanyData EXCEPT !.status = @], evs).status,
                            ![1].received = @ \o evs]
    /\ UNCHANGED <<response, pc, globalBusy, ingests, started, storeVars, viewVars>>

\* read() gives done: the generator returns, the loop ends, runCompany returns
AppReadDone ==
    /\ pc = "reading"
    /\ pos = Len(Wire(response))
    /\ pc' = "done"
    /\ runs' = <<>>
    /\ UNCHANGED <<response, pos, buffer, yielded, data, globalBusy, ingests, started,
                   storeVars, viewVars>>

\* read() rejects: the generator throws and the catch block patches
AppReadFails ==
    /\ pc = "reading"
    /\ pc' = "threw"
    /\ runs' = <<>>
    /\ data' = patch(data, runs[1].company, ErrorPatch("network error"))
    /\ UNCHANGED <<response, pos, buffer, yielded, globalBusy, ingests, started, storeVars, viewVars>>

InitRun ==
    /\ InitApp
    /\ rendered = NotRendered
    /\ documents = <<>>
    /\ lastCall = NoCall
    /\ response \in AppResponses
    /\ pc = "idle"
    /\ pos = 0
    /\ buffer = <<>>
    /\ yielded = <<>>

NextRun == AppRun \/ AppFetch \/ AppReadChunk \/ AppReadDone \/ AppReadFails

SpecRun == InitRun /\ [][NextRun]_vars

-----------------------------------------------------------------------------
(* ComparisonTable: the grades of the metric cells and of the column head. *)

\* the keys of METRIC_ROWS
MetricKeys == {"transparency", "risk_mitigation", "safety", "cost"}

\* a number, as a fraction with a positive denominator
Num(n) == [num |-> n, den |-> 1]

\* the percentages the FILLER rows of the model hold
FillerPcts == {20, 80}

\* a row of FILLER: metric key -> percentage, for the keys the row has
FillerRows == UNION {[K -> FillerPcts] : K \in SUBSET MetricKeys}

\* FILLER: company -> row. The table of the model has a row for the first
\* company or for none; the companies on display are AppCompanies.
FillerTables == {[c \in C |-> row] : C \in {{}, {"Thales"}}, row \in FillerRows}

\* the inputs pctToGrade is applied to on its own: the whole numbers from
\* below 0 to above 100, and the halves next to the thresholds
GradeInputs ==
    {Num(n) : n \in -1..101} \cup
    {[num |-> 2 * t - 1, den |-> 2] : t \in {20, 40, 60, 80}}

PctToGradeShifted(pct) ==
    IF pct.num > 80 * pct.den THEN "A"
    ELSE IF pct.num > 60 * pct.den THEN "B"
    ELSE IF pct.num > 40 * pct.den THEN "C"
    ELSE IF pct.num > 20 * pct.den THEN "D"
    ELSE "F"

PctToGradeSwapped(pct) ==
    IF pct.num >= 80 * pct.den THEN "A"
    ELSE IF pct.num >= 60 * pct.den THEN "C"
    ELSE IF pct.num >= 40 * pct.den THEN "B"
    ELSE IF pct.num >= 20 * pct.den THEN "D"
    ELSE "F"

\* pctToGrade(pct).grade
pctToGrade(pct) ==
    IF pct.num >= 80 * pct.den THEN "A"
    ELSE IF pct.num >= 60 * pct.den THEN "B"
    ELSE IF pct.num >= 40 * pct.den THEN "C"
    ELSE IF pct.num >= 20 * pct.den THEN "D"
    ELSE "F"

\* FILLER[company] ?? {}
RowOf(FILLER, company) ==
    IF company \in DOMAIN FILLER THEN FILLER[company] ELSE <<>>

\* vals.reduce((a, b) => a + b, 0)
RECURSIVE Sum(_)
Sum(vals) ==
    IF DOMAIN vals = {} THEN 0
    ELSE LET k == CHOOSE x \in DOMAIN vals : TRUE
         IN  vals[k] + Sum([x \in DOMAIN vals \ {k} |-> vals[x]])

AvgOverAllKeys(vals) ==
    [num |-> Sum(vals), den |-> Cardinality(MetricKeys)]

\* the avg of companyAvgGrade
Avg(vals) ==
    IF Cardinality(DOMAIN vals) # 0
       THEN [num |-> Sum(vals), den |-> Cardinality(DOMAIN vals)]
       ELSE Num(0)

companyAvgGrade(FILLER, company) == pctToGrade(Avg(RowOf(FILLER, company)))

\* FILLER[company]?.[metricKey] ?? 0
PctOf(FILLER, company, metricKey) ==
    IF metricKey \in DOMAIN RowOf(FILLER, company)
       THEN RowOf(FILLER, company)[metricKey]
       ELSE 0

\* MetricCell({ metricKey, company, cd }) of the table that grades FILLER
MetricCell(FILLER, metricKey, company, cd) ==
    IF cd.status = "error" THEN [shows |-> "error"]
    ELSE IF cd.status = "running" \/ cd.status = "ingesting" THEN [shows |-> "skeleton"]
    ELSE [shows |-> "grade", grade |-> pctToGrade(Num(PctOf(FILLER, company, metricKey)))]

Statuses == {"idle", "ingesting", "running", "done", "error"}

\* pctToGrade applied to one number
Grade ==
    /\ \E pct \in GradeInputs :
          rendered' = [kind |-> "grade", pct |-> pct, grade |-> pctToGrade(pct)]
    /\ UNCHANGED <<storeVars, streamVars, appVars>>

\* ComparisonTable renders one metric cell of one company's column
RenderCell ==
    /\ \E FILLER \in FillerTables, company \in AppCompanies, metricKey \in MetricKeys,
          status \in Statuses :
          rendered' = [kind      |-> "cell",
                       company   |-> company,
                       metricKey |-> metricKey,
                       status    |-> status,
                       pct       |-> IF metricKey \in DOMAIN RowOf(FILLER, company)
                                        THEN <<RowOf(FILLER, company)[metricKey]>>
                                        ELSE <<>>,
                       cell      |-> MetricCell(FILLER, metricKey, company,
                                                [emptyCompanyData EXCEPT !.status = status])]
    /\ UNCHANGED <<storeVars, streamVars, appVars>>

\* ComparisonTable renders the head of one company's column
RenderHead ==
    /\ \E FILLER \in FillerTables, company \in AppCompanies :
          rendered' = [kind    |-> "head",
                       company |-> company,
                       vals    |-> RowOf(FILLER, company),
                       grade   |-> companyAvgGrade(FILLER, company)]
    /\ UNCHANGED <<storeVars, streamVars, appVars>>

\* the lists of score drivers a result may carry
DriverLists == UNION {[1..n -> {"d1", "d2"}] : n \in 0..MaxDrivers}

SliceKeepsAll(s, start, end) == s

\* Array.prototype.slice(start, end), for 0 <= start <= end
Slice(s, start, end) ==
    SubSeq(s, start + 1, IF end < Len(s) THEN end ELSE Len(s))

\* MetricCell of the results table, case "score_drivers"
DriversCell(cd) ==
    IF cd.status = "error" THEN [shows |-> "error"]
    ELSE IF cd.status = "running" \/ cd.status = "ingesting" THEN [shows |-> "skeleton"]
    ELSE IF cd.status = "idle" \/ cd.result = <<>> THEN [shows |-> "dash"]
    ELSE [shows |-> "drivers", items |-> Slice(cd.result[1].score_drivers, 0, 3)]

\* the "Score drivers" card of CompanyPage for the result `result`
DriversCard(cd, result) ==
    IF cd.status = "running" \/ cd.status = "ingesting" THEN [shows |-> "skeleton"]
    ELSE IF result # <<>> /\ Len(result[1].score_drivers) # 0
       THEN [shows |-> "drivers", items |-> Slice(result[1].score_drivers, 0, 3)]
    ELSE [shows |-> "none"]

\* the results table and CompanyPage render the score drivers of a company
\* whose result carries `drivers`
RenderDrivers ==
    /\ \E drivers \in DriverLists, status \in Statuses :
          LET cd == [emptyCompanyData EXCEPT
                        !.status = status,
                        !.result = <<[SynthData EXCEPT !.score_drivers = drivers]>>]
          IN  rendered' = [kind    |-> "drivers",
                           status  |-> status,
                           drivers |-> drivers,
                           cell    |-> DriversCell(cd),
                           card    |-> DriversCard(cd, cd.result)]
    /\ UNCHANGED <<storeVars, streamVars, appVars>>

\* the values a grade lookup may give: undefined is <<>>, a string g is <<g>>
LiveGrades == {<<>>, <<"">>, <<"A">>, <<"N/A">>}

RankingGrades == {<<>>, <<"B">>, <<"N/A">>}

\* the key `grade_${metricKey}` of the stats
GradeKey(metricKey) == <<"grade", metricKey>>

\* !v for an optional string: undefined, null and "" are falsy
Falsy(v) == v = <<>> \/ v[1] = ""

\* a || b
OrElse(a, b) == IF Falsy(a) THEN b ELSE a

\* MetricCell if the skeleton were shown whenever the company is loading
MetricCellSkeletonWhileLoading(metricKey, cd, ranking) ==
    LET liveGrade == IF cd.result # <<>> /\ GradeKey(metricKey) \in DOMAIN cd.result[1].stats
                        THEN <<cd.result[1].stats[GradeKey(metricKey)]>>
                        ELSE <<>>
        rankingGrade == IF ranking # <<>> /\ metricKey \in DOMAIN ranking[1].grades
                           THEN <<ranking[1].grades[metricKey]>>
                           ELSE <<>>
        grade == OrElse(OrElse(liveGrade, rankingGrade), <<>>)
    IN  IF cd.status = "error"
           THEN [shows |-> "error", text |-> IF cd.error # NULL THEN cd.error ELSE "Error"]
        ELSE IF cd.status = "running" \/ cd.status = "ingesting"
           THEN [shows |-> "skeleton"]
        ELSE IF Falsy(grade) \/ grade[1] = "N/A" THEN [shows |-> "N/A"]
        ELSE [shows |-> "grade", grade |-> grade[1]]

\* MetricCell({ metricKey, cd, ranking }) of the table that shows the live
\* grade or the ranking's grade; an error message is shorter than the 60
\* characters that slice(0, 60) keeps
RankedMetricCell(metricKey, cd, ranking) ==
    LET liveGrade == IF cd.result # <<>> /\ GradeKey(metricKey) \in DOMAIN cd.result[1].stats
                        THEN <<cd.result[1].stats[GradeKey(metricKey)]>>
                        ELSE <<>>
        rankingGrade == IF ranking # <<>> /\ metricKey \in DOMAIN ranking[1].grades
                           THEN <<ranking[1].grades[metricKey]>>
                           ELSE <<>>
        grade == OrElse(OrElse(liveGrade, rankingGrade), <<>>)
    IN  IF cd.status = "error"
           THEN [shows |-> "error", text |-> IF cd.error # NULL THEN cd.error ELSE "Error"]
        ELSE IF (cd.status = "running" \/ cd.status = "ingesting") /\ Falsy(grade)
           THEN [shows |-> "skeleton"]
        ELSE IF Falsy(grade) \/ grade[1] = "N/A" THEN [shows |-> "N/A"]
        ELSE [shows |-> "grade", grade |-> grade[1]]

\* ComparisonTable renders one metric cell from the company's state and its
\* ranking: the result is null or carries stats with or without the
\* metric's grade, the ranking is undefined or carries the metric's grade
RenderRanked ==
    /\ \E metricKey \in MetricKeys, status \in Statuses, error \in {NULL, "Stream failed"},
          live \in LiveGrades, rk \in RankingGrades, hasResult \in BOOLEAN :
          /\ live # <<>> => hasResult
          /\ LET stats == IF live = <<>> THEN <<>>
                                        ELSE [x \in {GradeKey(metricKey)} |-> live[1]]
                  cd == [emptyCompanyData EXCEPT
                            !.status = status,
                            !.error = error,
                            !.result = IF hasResult THEN <<[stats |-> stats]>> ELSE <<>>]
                  ranking == IF rk = <<>> THEN <<>>
                                         ELSE <<[grades |-> [k \in {metricKey} |-> rk[1]]]>>
              IN  rendered' = [kind      |-> "ranked",
                               metricKey |-> metricKey,
                               status    |-> status,
                               error     |-> error,
                               live      |-> live,
                               ranking   |-> rk,
                               cell      |-> RankedMetricCell(metricKey, cd, ranking)]
    /\ UNCHANGED <<storeVars, streamVars, appVars>>

InitTable ==
    /\ InitApp
    /\ rendered = NotRendered
    /\ documents = <<>>
    /\ lastCall = NoCall
    /\ response = [ok |-> FALSE, frames |-> <<>>, tail |-> <<>>]
    /\ pc = "idle"
    /\ pos = 0
    /\ buffer = <<>>
    /\ yielded = <<>>

NextTable == Grade \/ RenderCell \/ RenderHead \/ RenderDrivers \/ RenderRanked

SpecTable == InitTable /\ [][NextTable]_vars

-----------------------------------------------------------------------------

InitStore ==
    /\ InitApp
    /\ rendered = NotRendered
    /\ documents = <<>>
    /\ lastCall = NoCall
    /\ response = [ok |-> FALSE, frames |-> <<>>, tail |-> <<>>]
    /\ pc = "idle"
    /\ pos = 0
    /\ buffer = <<>>
    /\ yielded = <<>>

NextStore == Upsert \/ Search \/ Return

SpecStore == InitStore /\ [][NextStore]_vars

-----------------------------------------------------------------------------
(* Properties of the vector store, checked under SpecStore.                *)

Searched == lastCall.op = "search"

Returned == Searched /\ ~lastCall.error

RowIds == {lastCall.rows[n].id : n \in 1..Len(lastCall.rows)}

OfCompany(c) == {i \in 1..Len(documents) : documents[i].company = c}

OfCompanyAndTypes(c, T) ==
    {i \in 1..Len(documents) : documents[i].company = c /\ documents[i].source_type \in T}

\* C1: a search with filter_company = C and a non-empty filter_types = T
\* returns only documents with company = C and source_type in T, whatever
\* else the store holds.
C1_FilterCorrectness ==
    (Returned /\ ~lastCall.types.isNull /\ lastCall.types.elems # {}) =>
        \A n \in 1..Len(lastCall.rows) :
            /\ lastCall.rows[n].company = lastCall.company
            /\ lastCall.rows[n].source_type \in lastCall.types.elems

C1_Witness ==
    /\ Returned /\ ~lastCall.types.isNull /\ lastCall.types.elems # {}
    /\ Len(lastCall.rows) >= 1
    /\ \E i \in 1..Len(documents) : documents[i].company # lastCall.company
    /\ \E i \in OfCompany(lastCall.company) :
          documents[i].source_type \notin lastCall.types.elems

\* C2: the rows of a search are in non-increasing order of similarity, each
\* row's similarity is 1 minus the cosine distance of its document to the
\* query, and the first row is a document nearest the query.
C2_SimilarityOrder ==
    Returned =>
        /\ \A i, j \in 1..Len(lastCall.rows) :
              i < j => lastCall.rows[i].similarity >= lastCall.rows[j].similarity
        /\ \A n \in 1..Len(lastCall.rows) :
              lastCall.rows[n].similarity =
                  One - CosineDistance(documents[lastCall.rows[n].id].embedding, lastCall.query)
        /\ Len(lastCall.rows) >= 1 =>
              \A i \in Selected(lastCall.company, lastCall.types) :
                  CosineDistance(documents[i].embedding, lastCall.query)
                      >= CosineDistance(documents[lastCall.rows[1].id].embedding, lastCall.query)

C2_Witness ==
    /\ Returned
    /\ Len(lastCall.rows) >= 2
    /\ lastCall.rows[1].similarity > lastCall.rows[2].similarity
    /\ lastCall.rows[1].id > lastCall.rows[2].id

\* C3: two rows of equal similarity come in creation order, the
\* earlier-created document first.
C3_TiesByCreation ==
    Returned =>
        \A i, j \in 1..Len(lastCall.rows) :
            (i < j /\ lastCall.rows[i].similarity = lastCall.rows[j].similarity) =>
                documents[lastCall.rows[i].id].created_at
                    < documents[lastCall.rows[j].id].created_at

\* C4: with filter_types omitted (NULL) or empty, every source type is
\* eligible: a search with k at least the number of the company's documents
\* returns all of them.
C4_UnrestrictedWhenOmittedOrEmpty ==
    (/\ Returned
     /\ lastCall.types.isNull \/ lastCall.types.elems = {}
     /\ lastCall.k >= Cardinality(OfCompany(lastCall.company))) =>
        RowIds = OfCompany(lastCall.company)

\* C5: when k is at least the number of stored documents with company = C
\* and source_type in T, the search returns exactly those documents, each
\* once.
C5_ExactlyTheMatches ==
    (/\ Returned
     /\ ~lastCall.types.isNull
     /\ lastCall.k >= Cardinality(OfCompanyAndTypes(lastCall.company, lastCall.types.elems))) =>
        /\ RowIds = OfCompanyAndTypes(lastCall.company, lastCall.types.elems)
        /\ Len(lastCall.rows) = Cardinality(RowIds)

C5_Witness ==
    /\ Returned
    /\ lastCall.types = [isNull |-> FALSE, elems |-> {"patent"}]
    /\ Len(lastCall.rows) = 2
    /\ lastCall.k > 2
    /\ \E i \in OfCompany(lastCall.company) : documents[i].source_type = "news"

\* C6: a search with k >= 0 raises no error and returns at most k rows; with
\* k = 0 it returns the empty sequence.
C6_AtMostK ==
    (Searched /\ lastCall.k >= 0) =>
        /\ ~lastCall.error
        /\ Len(lastCall.rows) <= lastCall.k

C6_Witness ==
    /\ Returned
    /\ lastCall.k = 0
    /\ lastCall.rows = <<>>
    /\ Cardinality(Selected(lastCall.company, lastCall.types)) >= 2

\* C7: a search for a company with no documents returns the empty sequence
\* and no error, whatever the store holds for other companies.
C7_EmptyForUnknownCompany ==
    (Searched /\ lastCall.k >= 0 /\ OfCompany(lastCall.company) = {}) =>
        /\ ~lastCall.error
        /\ lastCall.rows = <<>>

C7_Witness ==
    /\ Returned
    /\ lastCall.k >= 1
    /\ OfCompany(lastCall.company) = {}
    /\ lastCall.types.isNull
    /\ Len(documents) >= 2
    /\ lastCall.rows = <<>>

ImageUrlPresent ==
    \A i \in 1..Len(documents) :
        documents[i].source_type = "product_image" => documents[i].image_url # NULL

RejectedWithoutImageUrl ==
    (/\ lastCall.op = "upsert"
     /\ lastCall.source_type = "product_image"
     /\ lastCall.image_url = NULL) =>
        lastCall.error = "ValidationError"

\* C8: every stored product_image document has an image_url; an upsert of a
\* product_image without image_url ends in ValidationError and leaves the
\* store as it was.
C8_ImageUrlRequired ==
    /\ [](ImageUrlPresent /\ RejectedWithoutImageUrl)
    /\ [][(lastCall'.op = "upsert" /\ lastCall'.error = "ValidationError")
             => documents' = documents]_vars

C8_Witness ==
    /\ lastCall.op = "upsert"
    /\ lastCall.source_type = "product_image"
    /\ lastCall.image_url = NULL
    /\ lastCall.error = "ValidationError"
    /\ \E i \in 1..Len(documents) : documents[i].source_type = "product_image"

-----------------------------------------------------------------------------
(* Properties of streamAnalysis, checked under SpecStream.                 *)

\* the events of the terminated frames, in the order the server wrote them
RECURSIVE EventsSent(_)
EventsSent(frames) ==
    IF frames = <<>> THEN <<>>
    ELSE IF Len(Head(frames)) = 1 /\ Head(frames)[1] \in EventTexts
            THEN <<Head(frames)[1]>> \o EventsSent(Tail(frames))
            ELSE EventsSent(Tail(frames))

IsPrefix(a, b) == Len(a) <= Len(b) /\ a = SubSeq(b, 1, Len(a))

\* C9: however the body is cut into chunks, the events yielded so far are
\* the first events of the frames sent, in their order, each once; when the
\* stream has been read to its end, every terminated frame's event has been
\* yielded.
C9_EventsInOrder ==
    /\ IsPrefix(yielded, EventsSent(response.frames))
    /\ pc = "done" => yielded = EventsSent(response.frames)

\* a chunk has ended inside the blank line that closes the second frame
C9_Witness ==
    /\ pc = "reading"
    /\ yielded = <<"I">>
    /\ buffer = DataPrefix \o <<" ", "F", LF>>

\* a frame whose payload is no event's JSON: other text, or nothing
Malformed(payload) == ~(Len(payload) = 1 /\ payload[1] \in EventTexts)

\* the number of frames whose closing blank line has been read
FramesRead ==
    Cardinality({k \in 1..Len(response.frames) :
                    Len(BodyText(SubSeq(response.frames, 1, k))) <= pos})

-----------------------------------------------------------------------------
(* Properties of runCompany, checked under SpecServer.                     *)

OpenRuns(c) == {r \in 1..Len(runs) : runs[r].company = c}

RunStart == Spread(emptyCompanyData, RunningPatch)

\* the CompanyData as the patches of run `run` alone leave it
RunView(run) == OnEvents(RunStart, run.received)

\* C13: when the investigator stage fails, the run's first and only event
\* is 'error': no forensic or synthesizer event follows, the run ends in
\* 'error', and the forensic stage status is at its initial value (the
\* client's 'idle'), in the run's own record and, when no other call has
\* been made, in the company's entry.
C13_InvestigatorFailure ==
    \A r \in 1..Len(runs) :
        (runs[r].received # <<>> /\ runs[r].received[1] = "E") =>
            /\ runs[r].received = <<"E">>
            /\ ServerSteps(runs[r].stage) = {}
            /\ runs[r].outcome = "error"
            /\ RunView(runs[r]).agentStatus.forensic = emptyCompanyData.agentStatus.forensic
            /\ started = 1 =>
                  /\ data[runs[r].company].status = "error"
                  /\ data[runs[r].company].error = "stage failed"
                  /\ data[runs[r].company].agentStatus.forensic
                        = emptyCompanyData.agentStatus.forensic

C13_Witness ==
    /\ started = 1
    /\ Len(runs) = 1
    /\ runs[1].received = <<"E">>
    /\ runs[1].stage = "ended"
    /\ data[runs[1].company].status = "error"
    /\ data[runs[1].company].agentStatus.forensic = "idle"

\* C18: for every completed run (status 'done' with a result), every
\* contradiction of the result cites at least one source.
C18_ContradictionsCited ==
    \A c \in AppCompanies :
        (data[c].status = "done" /\ data[c].result # <<>>) =>
            \A i \in 1..Len(data[c].result[1].contradictions) :
                Len(data[c].result[1].contradictions[i].sources) >= 1

\* a run has completed for one company while the Synthesizer's output for
\* the other was rejected
C18_Witness ==
    /\ data["Thales"].status = "done"
    /\ data["Thales"].result # <<>>
    /\ Len(data["Thales"].result[1].contradictions) >= 1
    /\ data["Rheinmetall"].status = "error"
    /\ \E r \in 1..Len(runs) :
          runs[r].company = "Rheinmetall" /\ runs[r].received = <<"I", "F", "E">>

\* C19: for every completed run the risk_score of the result is a whole
\* number from 0 to 100; a score the Synthesizer gives outside that range
\* has been clamped into it.
C19_ScoreInRange ==
    \A c \in AppCompanies :
        (data[c].status = "done" /\ data[c].result # <<>>) =>
            data[c].result[1].risk_score \in 0..100

\* the score of 140 has arrived as 100
C19_Witness ==
    \E c \in AppCompanies :
        /\ data[c].status = "done"
        /\ data[c].result = <<Full(SynthResult(100, <<"EP1">>))>>

RECURSIVE RunsOf(_, _)
RunsOf(c, rs) ==
    IF rs = <<>> THEN <<>>
    ELSE IF Head(rs).company = c THEN <<Head(rs)>> \o RunsOf(c, Tail(rs))
    ELSE RunsOf(c, Tail(rs))

\* how many handleIngestOne calls of company c are among is
IngestsOf(c, is) == Cardinality({i \in 1..Len(is) : is[i] = c})

\* C20: runs of different companies are independent under every
\* interleaving: a step changes a company's entry (status, agentStatus,
\* result, error) only if it is a step of one of that company's own calls:
\* the start, an event, the failure or the return of a run of it, or the
\* start or the outcome of an ingestion of it.
C20_Independent ==
    [][\A c \in AppCompanies :
          data'[c] # data[c] =>
              \/ RunsOf(c, runs') # RunsOf(c, runs)
              \/ IngestsOf(c, ingests') # IngestsOf(c, ingests)]_vars

\* both companies have a run under way, at different stages
C20_Witness ==
    /\ \E r \in 1..Len(runs) :
          runs[r].company = "Thales" /\ runs[r].received = <<"I">>
    /\ \E r \in 1..Len(runs) :
          runs[r].company = "Rheinmetall" /\ runs[r].received = <<"I", "F">>
    /\ data["Thales"].agentStatus.forensic = "running"
    /\ data["Rheinmetall"].agentStatus.synthesizer = "running"
    /\ globalBusy

-----------------------------------------------------------------------------
(* Properties of one run over any event stream, checked under SpecRun.     *)

ErrorTexts == {"E", "e"}

\* the index of the first error event among the events yielded, or 0
FirstError ==
    IF \E i \in 1..Len(yielded) : yielded[i] \in ErrorTexts
       THEN CHOOSE i \in 1..Len(yielded) :
               /\ yielded[i] \in ErrorTexts
               /\ \A j \in 1..(i - 1) : yielded[j] \notin ErrorTexts
       ELSE 0

\* C11: once a run has recorded an error (an error event has been handled),
\* no later event of the run moves the status to 'done' or changes the
\* result: the status is 'error' and the result is the one held when the
\* error was recorded.
C11_ErrorAbsorbing ==
    (pc \in {"reading", "done"} /\ FirstError > 0) =>
        \A c \in AppCompanies :
            data[c].status # "idle" =>
                /\ data[c].status = "error"
                /\ data[c].result =
                      OnEvents(RunStart, SubSeq(yielded, 1, FirstError)).result

StageOrder(a) ==
    /\ a.forensic \in {"running", "done"} => a.investigator = "done"
    /\ a.synthesizer \in {"running", "done"} => a.forensic = "done"

\* C12: whatever events a run receives and in whatever order, the recorded
\* stage statuses respect the stage order: forensic is 'running' or 'done'
\* only if investigator is 'done', synthesizer is 'running' or 'done' only
\* if forensic is 'done'.
C12_StageOrder ==
    \A c \in AppCompanies : StageOrder(data[c].agentStatus)

\* a forensic event has come before the investigator event
C12_Witness ==
    /\ yielded = <<"F", "I">>
    /\ \E c \in AppCompanies :
          data[c].agentStatus =
              [investigator |-> "done", forensic |-> "running", synthesizer |-> "idle"]

-----------------------------------------------------------------------------
(* Properties of the grading, checked under SpecTable.                     *)

Grades == {"A", "B", "C", "D", "F"}

\* a < b, for fractions
Less(a, b) == a.num * b.den < b.num * a.den

\* a >= t, for a fraction a and a whole number t
AtLeast(a, t) == a.num >= t * a.den

\* the letter the thresholds 80, 60, 40, 20 give
ThresholdGrade(pct) ==
    CHOOSE g \in Grades :
        /\ g = "A" <=> AtLeast(pct, 80)
        /\ g = "B" <=> (AtLeast(pct, 60) /\ ~AtLeast(pct, 80))
        /\ g = "C" <=> (AtLeast(pct, 40) /\ ~AtLeast(pct, 60))
        /\ g = "D" <=> (AtLeast(pct, 20) /\ ~AtLeast(pct, 40))
        /\ g = "F" <=> ~AtLeast(pct, 20)

\* C14: for every number pct the grade is A when pct >= 80, B when
\* 60 <= pct < 80, C when 40 <= pct < 60, D when 20 <= pct < 40 and F when
\* pct < 20, and it is never another letter.
C14_Thresholds ==
    rendered.kind = "grade" =>
        /\ rendered.grade \in Grades
        /\ rendered.grade = "A" <=> AtLeast(rendered.pct, 80)
        /\ rendered.grade = "B" <=> (AtLeast(rendered.pct, 60) /\ ~AtLeast(rendered.pct, 80))
        /\ rendered.grade = "C" <=> (AtLeast(rendered.pct, 40) /\ ~AtLeast(rendered.pct, 60))
        /\ rendered.grade = "D" <=> (AtLeast(rendered.pct, 20) /\ ~AtLeast(rendered.pct, 40))
        /\ rendered.grade = "F" <=> ~AtLeast(rendered.pct, 20)

C14_Witness ==
    /\ rendered.kind = "grade"
    /\ rendered.pct = Num(60)
    /\ rendered.grade = "B"

\* how good a grade is: A is best
GradeRank(g) ==
    CASE g = "A" -> 5 [] g = "B" -> 4 [] g = "C" -> 3 [] g = "D" -> 2 [] g = "F" -> 1

\* C15: grading is monotone: of two numbers graded one after the other, the
\* smaller never gets the better grade; likewise of two column heads, the
\* one with the smaller mean never gets the better overall grade.
C15_Monotone ==
    [][/\ (/\ rendered.kind = "grade" /\ rendered'.kind = "grade"
           /\ Less(rendered.pct, rendered'.pct))
            => GradeRank(rendered.grade) <= GradeRank(rendered'.grade)
       /\ (/\ rendered.kind = "head" /\ rendered'.kind = "head"
           /\ Less(Avg(rendered.vals), Avg(rendered'.vals)))
            => GradeRank(rendered.grade) <= GradeRank(rendered'.grade)]_vars

C15_Witness ==
    /\ rendered.kind = "head"
    /\ Avg(rendered.vals) = [num |-> 180, den |-> 3]
    /\ rendered.grade = "B"

\* C16: the overall grade of a company with at least one metric percentage
\* is the threshold grade of the mean of the percentages it has; a metric
\* it lacks is left out of the mean, not counted as zero, so with a single
\* percentage the overall grade is that percentage's grade.
C16_MeanOfAvailable ==
    (rendered.kind = "head" /\ DOMAIN rendered.vals # {}) =>
        /\ rendered.grade =
              ThresholdGrade([num |-> Sum(rendered.vals),
                              den |-> Cardinality(DOMAIN rendered.vals)])
        /\ \A k \in DOMAIN rendered.vals :
              DOMAIN rendered.vals = {k} =>
                  rendered.grade = ThresholdGrade(Num(rendered.vals[k]))

C16_Witness ==
    /\ rendered.kind = "head"
    /\ DOMAIN rendered.vals = {"safety"}
    /\ rendered.vals["safety"] = 80
    /\ rendered.grade = "A"

\* C17: a metric or an overall grade for which no percentage is at hand is
\* shown as N/A, never as a letter computed from a substituted 0.
C17_MissingIsNA ==
    /\ (/\ rendered.kind = "cell"
         /\ rendered.status \in {"idle", "done"}
         /\ rendered.pct = <<>>)
            => rendered.cell = [shows |-> "grade", grade |-> "N/A"]
    /\ (rendered.kind = "head" /\ DOMAIN rendered.vals = {})
            => rendered.grade = "N/A"

\* the first n entries of s, in order (all of s when it has fewer)
FirstOf(s, n) == [i \in 1..(IF Len(s) < n THEN Len(s) ELSE n) |-> s[i]]

\* C21: however many drivers a result carries, the table cell and the
\* company page present at most 3 of them: the first 3, in their order.
C21_AtMostThreeDrivers ==
    rendered.kind = "drivers" =>
        /\ rendered.cell.shows = "drivers" =>
              /\ Len(rendered.cell.items) <= 3
              /\ rendered.cell.items = FirstOf(rendered.drivers, 3)
        /\ rendered.card.shows = "drivers" =>
              /\ Len(rendered.card.items) <= 3
              /\ rendered.card.items = FirstOf(rendered.drivers, 3)

C21_Witness ==
    /\ rendered.kind = "drivers"
    /\ rendered.drivers = <<"d1", "d2", "d2", "d1">>
    /\ rendered.cell = [shows |-> "drivers", items |-> <<"d1", "d2", "d2">>]
    /\ rendered.card = [shows |-> "drivers", items |-> <<"d1", "d2", "d2">>]

\* the grade the cell goes by: the live grade if there is one, else the
\* ranking's, else none
ChosenGrade ==
    IF rendered.live # <<>> /\ rendered.live[1] # "" THEN rendered.live
    ELSE IF rendered.ranking # <<>> /\ rendered.ranking[1] # "" THEN rendered.ranking
    ELSE <<>>

\* C24: a cell of a company whose status is 'error' shows the error text
\* whatever grades there are; otherwise the cell goes by the live grade of
\* the result's stats if present, else by the ranking's grade, else it shows
\* N/A; the skeleton is shown exactly when the status is 'running' or
\* 'ingesting' and neither grade is available.
C24_CellPrecedence ==
    rendered.kind = "ranked" =>
        /\ rendered.status = "error" =>
               /\ rendered.cell.shows = "error"
               /\ rendered.error # NULL => rendered.cell.text = rendered.error
        /\ rendered.status # "error" =>
               /\ rendered.cell.shows = "skeleton"
                     <=> (rendered.status \in {"running", "ingesting"} /\ ChosenGrade = <<>>)
               /\ rendered.cell.shows # "skeleton" =>
                     rendered.cell = IF ChosenGrade = <<>> \/ ChosenGrade[1] = "N/A"
                                        THEN [shows |-> "N/A"]
                                        ELSE [shows |-> "grade", grade |-> ChosenGrade[1]]

\* while the company is running, a cell with both grades shows the live one
C24_Witness ==
    /\ rendered.kind = "ranked"
    /\ rendered.status = "running"
    /\ rendered.live = <<"A">>
    /\ rendered.ranking = <<"B">>
    /\ rendered.cell = [shows |-> "grade", grade |-> "A"]

-----------------------------------------------------------------------------
(* Properties of the failure paths and of the status of a company.         *)

\* C25: when the stream request fails (the response is not ok) or the
\* stream throws while it is read, the company of the run has status
\* 'error', an error message, the three stages 'idle', and no result of the
\* failed run.
C25_FailedRunStoresNothing ==
    pc = "threw" =>
        \A c \in AppCompanies :
            data[c] # emptyCompanyData =>
                /\ data[c].status = "error"
                /\ data[c].error # NULL
                /\ data[c].agentStatus = IdleAgents
                /\ data[c].result = <<>>

\* the results a and b (null, or one result) differ in nothing but stats
SameButStats(a, b) ==
    \/ a = <<>> /\ b = <<>>
    \/ /\ a # <<>> /\ b # <<>>
       /\ DOMAIN a[1] \ {"stats"} = DOMAIN b[1] \ {"stats"}
       /\ \A f \in DOMAIN a[1] \ {"stats"} : a[1][f] = b[1][f]

\* C26: the step that ends an ingestion of a company either sets its status
\* to 'idle' and changes nothing of its result but the stats (a null result
\* stays null), or, when the ingestion failed, sets status 'error' with a
\* message and leaves the result as it was.
C26_IngestionKeepsResult ==
    [][\A c \in AppCompanies :
          IngestsOf(c, ingests') < IngestsOf(c, ingests) =>
              \/ /\ data'[c].status = "idle"
                 /\ SameButStats(data[c].result, data'[c].result)
              \/ /\ data'[c].status = "error"
                 /\ data'[c].error # NULL
                 /\ data'[c].result = data[c].result]_vars

\* an ingestion has succeeded for a company that held a result: the result
\* has the stats of the ingestion and the score of the run before it
C26_Witness ==
    \E c \in AppCompanies :
        /\ data[c].status = "idle"
        /\ data[c].result # <<>>
        /\ data[c].result[1].stats = [patent |-> 3, news |-> 2, product_image |-> 0]
        /\ data[c].result[1].risk_score = 82
        /\ Len(data[c].result[1].contradictions) = 1

\* the runCompany calls of company c among rs whose stream has events to
\* come: the request is in flight, or the server has not ended the response
Delivering(c, rs) ==
    {r \in 1..Len(rs) : rs[r].company = c /\ rs[r].stage # "ended"}

\* C27: a run or an ingestion of a company starts only when no earlier run
\* of the company has events to come, and the status of a company becomes
\* 'done' only when its run's stream has ended; so no event of an earlier
\* run reaches the state of a later run or of an ingestion.
C27_NoOverlap ==
    [][\A c \in AppCompanies :
          /\ (\/ Len(RunsOf(c, runs')) > Len(RunsOf(c, runs))
              \/ IngestsOf(c, ingests') > IngestsOf(c, ingests))
                 => Delivering(c, runs) = {}
          /\ (data[c].status # "done" /\ data'[c].status = "done")
                 => Delivering(c, runs') = {}]_vars

\* C28: in every state of a company, status 'done' comes with a result:
\* no run is marked done with a null result, whatever data its synthesizer
\* and complete events carry.
C28_DoneHasResult ==
    \A c \in AppCompanies : data[c].status = "done" => data[c].result # <<>>

\* C29: in every state of a company, the error message is non-null exactly
\* when the status is 'error'.
C29_ErrorIffStatus ==
    \A c \in AppCompanies : data[c].error # NULL <=> data[c].status = "error"

-----------------------------------------------------------------------------
(* The end of the stream, checked under SpecStream.                        *)

\* the number of events among the frames read to their closing blank line
TerminatedEvents == Len(EventsSent(SubSeq(response.frames, 1, FramesRead)))

\* C30: streamAnalysis yields only frames that the blank line has closed:
\* at no time has it yielded more events than closed frames have been read;
\* when the stream closes, what is left in the buffer (the last frame, sent
\* without its blank line) stays there and is not yielded; and the generator
\* then terminates: every turn of its loop takes in a chunk or ends it, at
\* the end of the body the turn that ends it can be taken, and after it the
\* generator takes no further step.
C30_UnterminatedDiscarded ==
    /\ [](Len(yielded) <= TerminatedEvents)
    /\ [](pc = "done" => (buffer = response.tail /\ yielded = EventsSent(response.frames)))
    /\ [][pc = "reading" => (pc' \in {"done", "threw"} \/ pos' > pos)]_vars
    /\ []((pc = "reading" /\ pos = Len(Wire(response))) => ENABLED ReadDone)
    /\ [](pc = "done" => ~ENABLED NextStream)

\* the stream has closed after one frame and an event without its blank
\* line: the first was yielded, the second is still in the buffer
C30_Witness ==
    /\ pc = "done"
    /\ response.frames = << <<"I">> >>
    /\ response.tail = DataPrefix \o <<" ", "C">>
    /\ buffer = DataPrefix \o <<" ", "C">>
    /\ yielded = <<"I">>

====
